---- MODULE Spec2Model ----
(***************************************************************************)
(* A model of the dragify-demo-agent backend: the lead pipeline that the    *)
(* agent's tools implement (extraction, catalog enrichment, CRM insertion,  *)
(* notification), the orchestrator that wires them per team, the Slack      *)
(* ingress with its event-id de-duplication, process_message, and the       *)
(* event logger with its live buffer and timeout monitor.                   *)
(*                                                                          *)
(* Python strings that the code inspects (strip, lower, ilike, int, float)  *)
(* are sequences of one-character strings; a Python value whose type the    *)
(* code changes is a tagged tuple <<"str", chars>>, <<"int", n>> or         *)
(* <<"none">>.                                                              *)
(***************************************************************************)
EXTENDS Integers, Sequences, FiniteSets, TLC

VARIABLES
    \* ---- one orchestration run (agent/orchestrator.py, agent/tools/*) ----
    rteam,      \* team_id the orchestrator is built for
    rplanner,   \* behaviour of the planning LLM: "scripted", "tagging", "free"
    rllm,       \* what the extraction LLM answers for the message
    rflow,      \* the flow_config the orchestrator is built with
    rpc,        \* "new", "resolved", "planning", "done", "error", "construct_failed"
    rprompt,    \* the four capability names written into the system prompt
    rtools,     \* self.tools: names of the tools given to the agent
    rcalls,     \* tool names invoked so far, in order
    rlead,      \* the lead data the planner threads to the next tool
    rext,       \* <<x>>: what extract_lead_info returned; <<>> before
    renr,       \* <<x>>: what the data-source tool returned; <<>> before
    rcrmin,     \* <<x>>: lead_info_enhanced handed to the CRM tool
    rcrm,       \* <<x>>: what the CRM tool returned
    rnote,      \* <<x>>: what the notification tool returned
    rquery,     \* the last catalog query: "none", "ok", "raised", "skipped"
    rout,       \* the run's output text ("" before the run ends)
    \* ---- ingress, process_message and the event logger ----
    now,                  \* the clock, in minutes
    processed_event_ids,  \* api/slack.py: the de-duplication store
    req,                  \* the deliveries of POST /slack/events, by number
    db,                   \* the event_logs table: row id -> row
    live_events,          \* EventLogger.live_events, newest first
    monitor,              \* the timeout monitor task
    subscribers           \* EventLogger.subscribers: the dashboard websockets

runVars == <<rteam, rflow, rprompt, rplanner, rllm, rpc, rtools, rcalls, rlead,
             rext, renr, rcrmin, rcrm, rnote, rquery, rout>>
appVars == <<now, processed_event_ids, req, db, live_events, monitor, subscribers>>
vars == <<runVars, appVars>>

----------------------------------------------------------------------------
(* Bounds of the model *)

\* Planner iterations (tool calls) allowed in one run.
MaxIterations == 4

\* Deliveries of POST /slack/events the model follows.
MaxDeliveries == 2

\* The clock stops here.
MaxTime == 6

\* Capacity of the live-event buffer in the model; the program's is
\* deque(maxlen=1000), and the buffer behaves alike for any capacity.
LiveEventsMaxLen == 1

\* Distinct event ids Slack sends in the model.
MaxEventIds == 2

\* Capacity a bounded cache of recent event ids would have in the model; the
\* program's bounded cache is deque(maxlen=1000).
DedupMaxLen == 1

----------------------------------------------------------------------------
(* Python strings as character sequences *)

Uppers == <<"A","B","C","D","E","F","G","H","I","J","K","L","M",
            "N","O","P","Q","R","S","T","U","V","W","X","Y","Z">>
Lowers == <<"a","b","c","d","e","f","g","h","i","j","k","l","m",
            "n","o","p","q","r","s","t","u","v","w","x","y","z">>
Digits == <<"0","1","2","3","4","5","6","7","8","9">>

IsUpper(c) == \E i \in 1..26 : Uppers[i] = c
IsLower(c) == \E i \in 1..26 : Lowers[i] = c
IsDigit(c) == \E i \in 1..10 : Digits[i] = c
DigitVal(c) == (CHOOSE i \in 1..10 : Digits[i] = c) - 1
IsSpace(c) == c \in {" ", "\t", "\n"}

LowerChar(c) == IF IsUpper(c) THEN Lowers[CHOOSE i \in 1..26 : Uppers[i] = c] ELSE c
UpperChar(c) == IF IsLower(c) THEN Uppers[CHOOSE i \in 1..26 : Lowers[i] = c] ELSE c

\* str.lower() / str.upper()
StrLower(s) == [i \in 1..Len(s) |-> LowerChar(s[i])]
StrUpper(s) == [i \in 1..Len(s) |-> UpperChar(s[i])]

RECURSIVE LStrip(_)
LStrip(s) == IF s # <<>> /\ IsSpace(Head(s)) THEN LStrip(Tail(s)) ELSE s

RECURSIVE RStrip(_)
RStrip(s) == IF s # <<>> /\ IsSpace(s[Len(s)]) THEN RStrip(SubSeq(s, 1, Len(s) - 1)) ELSE s

\* str.strip()
StrStrip(s) == RStrip(LStrip(s))

\* str.replace(" ", "")
RECURSIVE RemoveSpaces(_)
RemoveSpaces(s) ==
    IF s = <<>> THEN <<>>
    ELSE IF Head(s) = " " THEN RemoveSpaces(Tail(s))
    ELSE <<Head(s)>> \o RemoveSpaces(Tail(s))

\* needle in hay
Contains(hay, needle) ==
    \E i \in 0..(Len(hay) - Len(needle)) : SubSeq(hay, i + 1, i + Len(needle)) = needle

\* s LIKE p: in the pattern "%" stands for any run of characters, "_" for any
\* one character, and a backslash makes the character after it literal.
RECURSIVE LikeMatch(_, _)
LikeMatch(s, p) ==
    IF p = <<>> THEN s = <<>>
    ELSE IF Head(p) = "%"
         THEN \E i \in 0..Len(s) : LikeMatch(SubSeq(s, i + 1, Len(s)), Tail(p))
    ELSE IF Head(p) = "\\" /\ Len(p) >= 2
         THEN s # <<>> /\ Head(s) = p[2] /\ LikeMatch(Tail(s), SubSeq(p, 3, Len(p)))
    ELSE /\ s # <<>>
         /\ (Head(p) = "_" \/ Head(p) = Head(s))
         /\ LikeMatch(Tail(s), Tail(p))

\* column.ilike(f"%{value}%"): the value is pasted into the pattern as it is.
ILikeContains(column, value) ==
    LikeMatch(StrLower(column), StrLower(<<"%">> \o value \o <<"%">>))

AllDigits(s) == s # <<>> /\ \A i \in 1..Len(s) : IsDigit(s[i])

RECURSIVE DigitsToNat(_)
DigitsToNat(s) ==
    IF s = <<>> THEN 0 ELSE 10 * DigitsToNat(SubSeq(s, 1, Len(s) - 1)) + DigitVal(s[Len(s)])

RECURSIVE NatToDigits(_)
NatToDigits(n) ==
    IF n < 10 THEN <<Digits[n + 1]>> ELSE NatToDigits(n \div 10) \o <<Digits[(n % 10) + 1]>>

\* str(n) for an int
IntToStr(n) == IF n < 0 THEN <<"-">> \o NatToDigits(0 - n) ELSE NatToDigits(n)

RECURSIVE Pow10(_)
Pow10(k) == IF k = 0 THEN 1 ELSE 10 * Pow10(k - 1)

----------------------------------------------------------------------------
(* Python values *)

PyNone == <<"none">>
PyStr(s) == <<"str", s>>
PyInt(n) == <<"int", n>>
IsStr(v) == v[1] = "str"
IsInt(v) == v[1] = "int"

\* bool(v)
Truthy(v) ==
    CASE v[1] = "none" -> FALSE
      [] v[1] = "str"  -> v[2] # <<>>
      [] v[1] = "int"  -> v[2] # 0

ValueError == [raised |-> "ValueError"]
Raised(x) == DOMAIN x = {"raised"}
Ok(v) == [ok |-> v]

\* int(s) for a str: optional surrounding whitespace, optional sign, digits.
IntOfStr(s) ==
    LET t == StrStrip(s)
        neg == t # <<>> /\ Head(t) = "-"
        u == IF t # <<>> /\ Head(t) \in {"-", "+"} THEN Tail(t) ELSE t
    IN IF AllDigits(u) THEN Ok(IF neg THEN 0 - DigitsToNat(u) ELSE DigitsToNat(u))
       ELSE ValueError

\* int(v or 0)
IntOrZero(v) ==
    IF ~Truthy(v) THEN Ok(0)
    ELSE IF IsInt(v) THEN Ok(v[2])
    ELSE IntOfStr(v[2])

\* str(v or "")
StrOrEmpty(v) ==
    IF ~Truthy(v) THEN <<>>
    ELSE IF IsInt(v) THEN IntToStr(v[2])
    ELSE v[2]

\* dict.get(key, default)
Get(d, key, default) == IF key \in DOMAIN d THEN d[key] ELSE default

----------------------------------------------------------------------------
(* config/flow_config.py and agent/tools/registry.py *)

\* A flow_config is a dict: a function from some of the three keys to strings.
EmptyFlow == [k \in {} |-> ""]

user_flows ==
    [t \in {"team_default", "T090NR297QD:", "T01ABCDE123"} |->
        CASE t = "team_default" ->
                [data_source |-> "postgresql", crm |-> "zoho", notification_channel |-> "gmail"]
          [] t = "T090NR297QD:" ->
                [data_source |-> "postgresql", crm |-> "zoho", notification_channel |-> "outlook"]
          [] t = "T01ABCDE123" ->
                [data_source |-> "sheets", crm |-> "zoho", notification_channel |-> "outlook"]]

\* A lookup that raises for a team the table does not hold.
get_user_flow_Strict(team_id) ==
    IF team_id \in DOMAIN user_flows THEN user_flows[team_id] ELSE [raised |-> "KeyError"]

get_user_flow(team_id) ==
    IF team_id \in DOMAIN user_flows THEN user_flows[team_id] ELSE user_flows["team_default"]

RegistryKeys ==
    {"extract_lead_info", "postgresql", "fetch_from_postgres", "zoho", "insert_into_zoho",
     "odoo", "insert_into_odoo", "send_gmail_notification", "send_outlook_notification"}

TOOL_REGISTRY ==
    [k \in RegistryKeys |->
        CASE k \in {"postgresql", "fetch_from_postgres"} -> "fetch_from_postgres"
          [] k \in {"zoho", "insert_into_zoho"} -> "insert_into_zoho"
          [] k \in {"odoo", "insert_into_odoo"} -> "insert_into_odoo"
          [] OTHER -> k]

DataSourceTools == {"fetch_from_postgres"}
CrmTools == {"insert_into_zoho", "insert_into_odoo"}
NotifyTools == {"send_gmail_notification", "send_outlook_notification"}

\* The team identifiers the model sends messages for: the three configured ones
\* and one that the flow table does not know.
Teams == {"team_default", "T090NR297QD:", "T01ABCDE123", "T0UNKNOWN"}

----------------------------------------------------------------------------
(* agent/orchestrator.py: construction *)

\* required_tools of _load_tools: the keys looked up in the registry, in order.
\* (flow_config.get(key) of an absent key is None, falsy like "".)
required_tools(flow_config) ==
    LET data_source == Get(flow_config, "data_source", "")
        crm == Get(flow_config, "crm", "")
        notification_channel == Get(flow_config, "notification_channel", "")
    IN <<"extract_lead_info">>
       \o (IF data_source # "" THEN <<data_source>> ELSE <<>>)
       \o (IF crm # "" THEN <<crm>> ELSE <<>>)
       \o (IF notification_channel = "" THEN <<>>
           ELSE IF notification_channel = "gmail" THEN <<"send_gmail_notification">>
           ELSE IF notification_channel = "outlook" THEN <<"send_outlook_notification">>
           ELSE <<notification_channel>>)

RECURSIVE ResolveKeys(_)
ResolveKeys(keys) ==
    IF keys = <<>> THEN <<>>
    ELSE (IF Head(keys) \in DOMAIN TOOL_REGISTRY THEN <<TOOL_REGISTRY[Head(keys)]>> ELSE <<>>)
         \o ResolveKeys(Tail(keys))

KeyError == [raised |-> "KeyError"]

\* _load_tools that aborts when a key is missing from the registry.
load_tools_Strict(flow_config) ==
    LET keys == required_tools(flow_config)
    IN IF \E i \in DOMAIN keys : keys[i] \notin DOMAIN TOOL_REGISTRY
       THEN KeyError ELSE Ok(ResolveKeys(keys))

\* AgentOrchestrator._load_tools: the tools found, or KeyError when none is.
load_tools(flow_config) ==
    LET tools == ResolveKeys(required_tools(flow_config))
    IN IF tools = <<>> THEN KeyError ELSE Ok(tools)

\* AgentOrchestrator._create_prompt_with_tools: the names the system message
\* tells the planner to call, steps 1 to 4.
create_prompt_with_tools(flow_config) ==
    LET data_source == Get(flow_config, "data_source", "fetch_from_postgres")
        crm == Get(flow_config, "crm", "insert_into_zoho")
        notification_channel == Get(flow_config, "notification_channel", "gmail")
        notification_tool == IF notification_channel = "gmail" THEN "send_gmail_notification"
                             ELSE IF notification_channel = "outlook"
                                  THEN "send_outlook_notification"
                             ELSE "send_gmail_notification"
    IN <<"extract_lead_info", data_source, crm, notification_tool>>

----------------------------------------------------------------------------
(* agent/tools/lead_extraction.py *)

\* float(s) for the decimal forms: [sign] digits [. [digits]] | [sign] . digits,
\* as the exact rational num / 10^scale.  Anything else raises ValueError.
\* (Exponents, inf/nan and the binary rounding of the product are not modelled.)
FloatOfStr(s) ==
    LET t == StrStrip(s)
        neg == t # <<>> /\ Head(t) = "-"
        u == IF t # <<>> /\ Head(t) \in {"-", "+"} THEN Tail(t) ELSE t
        dots == {i \in 1..Len(u) : u[i] = "."}
        ip == IF dots = {} THEN u ELSE SubSeq(u, 1, (CHOOSE i \in dots : TRUE) - 1)
        fp == IF dots = {} THEN <<>> ELSE SubSeq(u, (CHOOSE i \in dots : TRUE) + 1, Len(u))
        wellFormed == /\ Cardinality(dots) <= 1
                      /\ ip \o fp # <<>>
                      /\ \A i \in 1..Len(ip) : IsDigit(ip[i])
                      /\ \A i \in 1..Len(fp) : IsDigit(fp[i])
    IN IF wellFormed
       THEN Ok([neg |-> neg, num |-> DigitsToNat(ip \o fp), scale |-> Len(fp)])
       ELSE ValueError

\* int(f * mult) for a float f = num / 10^scale: truncation toward zero.
TruncScaled(f, mult) ==
    LET q == (f.num * mult) \div Pow10(f.scale)
    IN IF f.neg THEN 0 - q ELSE q

\* re.match(r"^\d+(\.\d+)?$", s)
MatchesPlainNumber(s) ==
    LET dots == {i \in 1..Len(s) : s[i] = "."}
    IN \/ AllDigits(s)
       \/ /\ Cardinality(dots) = 1
          /\ LET d == CHOOSE i \in dots : TRUE
             IN AllDigits(SubSeq(s, 1, d - 1)) /\ AllDigits(SubSeq(s, d + 1, Len(s)))

\* The budget branch of extract_lead_info's key loop.
normalize_budget(budget_val) ==
    IF IsStr(budget_val)
    THEN LET b == RemoveSpaces(StrUpper(budget_val[2]))
         IN IF b # <<>> /\ b[Len(b)] = "M"
            THEN LET f == FloatOfStr(SubSeq(b, 1, Len(b) - 1))
                 IN IF Raised(f) THEN 0 ELSE TruncScaled(f.ok, 1000000)
            ELSE IF MatchesPlainNumber(b)
            THEN TruncScaled(FloatOfStr(b).ok, 1)
            ELSE 0
    ELSE IF IsInt(budget_val) THEN budget_val[2]
    ELSE 0

WordKeys == << <<"o","n","e">>, <<"t","w","o">>, <<"t","h","r","e","e">>, <<"f","o","u","r">>,
               <<"f","i","v","e">>, <<"s","i","x">>, <<"s","e","v","e","n">>,
               <<"e","i","g","h","t">> >>

\* word_to_num lookup on the lower-cased bedrooms string
normalize_bedrooms(b) ==
    IF \E i \in 1..8 : WordKeys[i] = StrLower(b)
    THEN <<Digits[(CHOOSE i \in 1..8 : WordKeys[i] = StrLower(b)) + 1]>>
    ELSE b

\* The dict returned on the except path.
DefaultLead ==
    [first_name |-> <<>>, last_name |-> <<>>, phone |-> <<>>, location |-> <<>>,
     property_type |-> <<>>, bedrooms |-> PyStr(<<>>), budget |-> 0]

\* The JSON object of an LLM answer that holds none.
EmptyJson ==
    [first_name |-> PyNone, last_name |-> PyNone, phone |-> PyNone, location |-> PyNone,
     property_type |-> PyNone, bedrooms |-> PyNone, budget |-> PyInt(0)]

\* An extraction that lets the LLM's failure escape.
extract_lead_info_Raises(resp) ==
    IF resp.kind \in {"llm_error", "invalid", "no_json"} THEN ValueError
    ELSE [first_name |-> StrOrEmpty(resp.json.first_name),
          last_name |-> StrOrEmpty(resp.json.last_name),
          phone |-> StrOrEmpty(resp.json.phone),
          location |-> StrOrEmpty(resp.json.location),
          property_type |-> StrOrEmpty(resp.json.property_type),
          bedrooms |-> PyStr(normalize_bedrooms(StrOrEmpty(resp.json.bedrooms))),
          budget |-> normalize_budget(resp.json.budget)]

\* extract_lead_info for an LLM answer: kind "llm_error" (invoke raises),
\* "invalid" (no content), "no_json" (no parsable object) or "json" (an object,
\* a missing key being PyNone and a missing budget PyInt(0)).
extract_lead_info(resp) ==
    IF resp.kind \in {"llm_error", "invalid"} THEN DefaultLead
    ELSE LET j == IF resp.kind = "no_json" THEN EmptyJson ELSE resp.json
         IN [first_name |-> StrOrEmpty(j.first_name),
             last_name |-> StrOrEmpty(j.last_name),
             phone |-> StrOrEmpty(j.phone),
             location |-> StrOrEmpty(j.location),
             property_type |-> StrOrEmpty(j.property_type),
             bedrooms |-> PyStr(normalize_bedrooms(StrOrEmpty(j.bedrooms))),
             budget |-> normalize_budget(j.budget)]

----------------------------------------------------------------------------
(* agent/tools/data_sources.py *)

Tolerance == 200000

\* The projects table.
Catalog ==
    << [name |-> "Palm Villas", location |-> <<"N","e","w"," ","C","a","i","r","o">>,
        property_type |-> <<"V","i","l","l","a">>, min_price |-> 7800000,
        max_price |-> 8200000, min_bedrooms |-> 3, max_bedrooms |-> 4],
       [name |-> "Maadi Studios", location |-> <<"M","a","a","d","i">>,
        property_type |-> <<"s","t","u","d","i","o">>, min_price |-> 900000,
        max_price |-> 1200000, min_bedrooms |-> 0, max_bedrooms |-> 1] >>

\* The WHERE clause of the catalog query.
ProjectMatches(p, location, property_type, bedrooms, budget) ==
    /\ ILikeContains(p.location, location)
    /\ ILikeContains(p.property_type, property_type)
    /\ p.min_price <= budget + Tolerance
    /\ p.max_price >= budget - Tolerance
    /\ p.min_bedrooms <= bedrooms
    /\ p.max_bedrooms >= bedrooms

RECURSIVE MatchedNames(_, _, _, _, _)
MatchedNames(projects, location, property_type, bedrooms, budget) ==
    IF projects = <<>> THEN <<>>
    ELSE (IF ProjectMatches(Head(projects), location, property_type, bedrooms, budget)
          THEN <<Head(projects).name>> ELSE <<>>)
         \o MatchedNames(Tail(projects), location, property_type, bedrooms, budget)

\* The keyword arguments the tool is called with, taken from a lead-data dict:
\* an absent key gets the parameter's default.
FetchArgs(lead) ==
    [first_name |-> Get(lead, "first_name", <<>>),
     last_name |-> Get(lead, "last_name", <<>>),
     phone |-> Get(lead, "phone", <<>>),
     location |-> Get(lead, "location", <<>>),
     property_type |-> Get(lead, "property_type", <<>>),
     bedrooms |-> Get(lead, "bedrooms", PyStr(<<>>)),
     budget |-> Get(lead, "budget", 0),
     team_id |-> Get(lead, "team_id", "")]

\* fetch_from_postgres(**a) with the catalog query succeeding (dbOk) or raising.
fetch_from_postgres(a, dbOk) ==
    LET location == StrStrip(a.location)
        property_type == StrLower(StrStrip(a.property_type))
        b == IntOrZero(a.bedrooms)
        base == [first_name |-> a.first_name, last_name |-> a.last_name, phone |-> a.phone,
                 location |-> location, property_type |-> property_type,
                 bedrooms |-> a.bedrooms, budget |-> a.budget, team_id |-> a.team_id,
                 matched_projects |-> <<>>]
    IN IF Raised(b) THEN base
       ELSE IF ~dbOk THEN [base EXCEPT !.bedrooms = PyInt(b.ok)]
       ELSE [base EXCEPT !.bedrooms = PyInt(b.ok),
                         !.matched_projects =
                             MatchedNames(Catalog, location, property_type, b.ok, a.budget)]

----------------------------------------------------------------------------
(* agent/tools/crm.py and agent/tools/notify.py *)

\* str.strip() of a team identifier (the identifiers of the model carry no
\* surrounding blanks; a blank-only one strips to the empty string).
StripId(t) == IF t \in {"", " "} THEN "" ELSE t

\* The team_id of a dict that holds JSON null (Python None) under that key.
NoneId == "<None>"

AttributeError == [raised |-> "AttributeError"]

\* insert_into_zoho(lead_info_enhanced); zoho is the provider's behaviour:
\* "not_configured", "raises", "SUCCESS", "DUPLICATE_DATA" (a non-SUCCESS code)
\* or "no_data" (a response without a data list).
insert_into_zoho(lead_info_enhanced, zoho) ==
    LET given == Get(lead_info_enhanced, "team_id", "")
        team_id == StripId(given)
        res(ok, msg) == [success |-> ok, message |-> msg,
                         lead_info |-> lead_info_enhanced, team_id |-> team_id]
    IN IF given = NoneId THEN AttributeError
       ELSE IF team_id = "" THEN res(FALSE, "Missing team_id in lead_info_enhanced.")
       ELSE IF zoho = "not_configured" THEN res(FALSE, "Zoho CRM not configured.")
       ELSE IF zoho = "raises" THEN res(FALSE, "Zoho CRM insertion failed.")
       ELSE IF zoho = "SUCCESS" THEN res(TRUE, "Lead inserted into Zoho CRM successfully.")
       ELSE res(FALSE, "Failed to insert lead into Zoho CRM.")

insert_into_odoo(lead_info_enhanced) ==
    [success |-> TRUE, message |-> "Lead inserted into Odoo CRM successfully.",
     lead_info |-> lead_info_enhanced, team_id |-> Get(lead_info_enhanced, "team_id", "")]

\* A notification tool whose failure escapes.
send_gmail_notification_Raises(gmailOk) ==
    IF gmailOk THEN Ok("Email notification sent successfully")
    ELSE [raised |-> "Exception"]

\* send_gmail_notification: the string returned, gmailOk being whether the
\* service objects were built and the mail handed over without an exception
\* inside the tool's try block.
send_gmail_notification(gmailOk) ==
    IF gmailOk THEN Ok("Email notification sent successfully")
    ELSE Ok("Failed to send email notification")

send_outlook_notification == Ok("Outlook notification (mock) sent successfully")

----------------------------------------------------------------------------
(* One orchestration run: AgentOrchestrator.__init__, build, handle_message *)

Chars(n) == CASE n = "Sarah"   -> <<"S","a","r","a","h">>
              [] n = "Johnson" -> <<"J","o","h","n","s","o","n">>
              [] n = "phone"   -> <<"0","1","2","3","4","5","6","7","8","9","0">>
              [] n = "NewCairo" -> <<"N","e","w"," ","C","a","i","r","o">>
              [] n = "Maadi"   -> <<"M","a","a","d","i">>
              [] n = "villa"   -> <<"v","i","l","l","a">>
              [] n = "Villa"   -> <<"V","i","l","l","a">>
              [] n = "studio"  -> <<"s","t","u","d","i","o">>
              [] n = "three"   -> <<"T","h","r","e","e">>
              [] n = "3BR"     -> <<"3","B","R">>
              [] n = "8M"      -> <<"8","M">>
              [] n = "7.9m"    -> <<"7",".","9"," ","m">>

\* The JSON objects the extraction LLM answers with in the model.
LeadJsons ==
    { \* "Sarah wants a villa in New Cairo, budget 8M, phone 01234567890"
      [first_name |-> PyStr(Chars("Sarah")), last_name |-> PyNone,
       phone |-> PyStr(Chars("phone")), location |-> PyStr(Chars("NewCairo")),
       property_type |-> PyStr(Chars("villa")), bedrooms |-> PyStr(<<>>),
       budget |-> PyInt(8000000)],
      [first_name |-> PyStr(Chars("Sarah")), last_name |-> PyStr(Chars("Johnson")),
       phone |-> PyStr(Chars("phone")), location |-> PyStr(<<" ">> \o Chars("NewCairo")),
       property_type |-> PyStr(Chars("Villa")), bedrooms |-> PyStr(<<"3">>),
       budget |-> PyStr(Chars("8M"))],
      [first_name |-> PyStr(Chars("Sarah")), last_name |-> PyStr(Chars("Johnson")),
       phone |-> PyNone, location |-> PyStr(Chars("NewCairo")),
       property_type |-> PyStr(Chars("villa")), bedrooms |-> PyStr(Chars("three")),
       budget |-> PyStr(Chars("7.9m"))],
      [first_name |-> PyNone, last_name |-> PyNone,
       phone |-> PyStr(Chars("phone")), location |-> PyStr(Chars("NewCairo")),
       property_type |-> PyStr(Chars("villa")), bedrooms |-> PyStr(Chars("3BR")),
       budget |-> PyInt(8000000)],
      [first_name |-> PyNone, last_name |-> PyNone,
       phone |-> PyStr(Chars("phone")), location |-> PyStr(Chars("Maadi")),
       property_type |-> PyStr(Chars("studio")), bedrooms |-> PyInt(1),
       budget |-> PyInt(1000000)] }

LlmAnswers ==
    {[kind |-> "json", json |-> j] : j \in LeadJsons}
    \cup {[kind |-> k, json |-> EmptyJson] : k \in {"llm_error", "invalid", "no_json"}}

Planners == {"scripted", "tagging", "free"}
ZohoOutcomes == {"not_configured", "raises", "SUCCESS", "DUPLICATE_DATA", "no_data"}

SuccessText == "Lead was added to the CRM successfully."
FailureText == "The lead could not be added to the CRM."

Range(f) == {f[i] : i \in DOMAIN f}

\* What the planner may do next.  A scripted (or tagging) planner follows the
\* directive: the tools it was given, once each, in the order of the list, then
\* the final answer.  A free planner is the LLM unconstrained by the executor:
\* any of its tools, any number of times within the iteration cap.
MayCall(tool) ==
    /\ rpc = "planning"
    /\ Len(rcalls) < MaxIterations
    /\ tool \in Range(rtools)
    /\ \/ rplanner = "free"
       \/ /\ Len(rcalls) < Len(rtools)
          /\ rtools[Len(rcalls) + 1] = tool

\* The lead data the planner passes on after a tool returned it; the tagging
\* planner also writes the run's team_id into it ("Team: {team_id}" of the prompt).
Threaded(lead) ==
    IF rplanner = "tagging"
    THEN [k \in DOMAIN lead \cup {"team_id"} |-> IF k = "team_id" THEN rteam ELSE lead[k]]
    ELSE lead

RunInit ==
    /\ rteam \in Teams
    /\ rplanner \in Planners
    /\ rllm \in LlmAnswers
    /\ rflow = EmptyFlow
    /\ rprompt = <<>>
    /\ rpc = "new"
    /\ rtools = <<>>
    /\ rcalls = <<>>
    /\ rlead = <<>>
    /\ rext = <<>> /\ renr = <<>> /\ rcrmin = <<>> /\ rcrm = <<>> /\ rnote = <<>>
    /\ rquery = "none"
    /\ rout = ""

\* process_message: flow_config = get_user_flow(team_id)
ResolveFlow ==
    /\ rpc = "new"
    /\ rflow' = get_user_flow(rteam)
    /\ rpc' = "resolved"
    /\ UNCHANGED <<rquery, rteam, rprompt, rplanner, rllm, rtools, rcalls, rlead, rext, renr,
                   rcrmin, rcrm, rnote, rout>>
    /\ UNCHANGED appVars

\* AgentOrchestrator.__init__ with get_llm() succeeding: the tools are loaded,
\* then the prompt is written.
Build ==
    /\ rpc = "resolved"
    /\ LET t == load_tools(rflow)
       IN IF Raised(t)
          THEN rpc' = "construct_failed" /\ rtools' = rtools /\ rprompt' = rprompt
          ELSE /\ rpc' = "planning"
               /\ rtools' = t.ok
               /\ rprompt' = create_prompt_with_tools(rflow)
    /\ UNCHANGED <<rquery, rteam, rflow, rplanner, rllm, rcalls, rlead, rext, renr, rcrmin,
                   rcrm, rnote, rout>>
    /\ UNCHANGED appVars

\* AgentOrchestrator.__init__ with get_llm() raising (GROQ_API_KEY unset).
BuildFails ==
    /\ rpc = "resolved"
    /\ rpc' = "construct_failed"
    /\ UNCHANGED <<rquery, rteam, rflow, rprompt, rplanner, rllm, rtools, rcalls, rlead, rext, renr, rcrmin, rcrm,
                   rnote, rout>>
    /\ UNCHANGED appVars

CallExtract ==
    /\ MayCall("extract_lead_info")
    /\ LET out == extract_lead_info(rllm)
       IN /\ rext' = <<out>>
          /\ rlead' = Threaded(out)
    /\ rcalls' = Append(rcalls, "extract_lead_info")
    /\ UNCHANGED <<rquery, rteam, rflow, rprompt, rplanner, rllm, rpc, rtools, renr, rcrmin, rcrm, rnote, rout>>
    /\ UNCHANGED appVars

CallDataSource ==
    /\ MayCall("fetch_from_postgres")
    /\ \E dbOk \in BOOLEAN :
          LET out == fetch_from_postgres(FetchArgs(rlead), dbOk)
          IN /\ renr' = <<out>>
             /\ rlead' = Threaded(out)
             /\ rquery' = IF Raised(IntOrZero(FetchArgs(rlead).bedrooms)) THEN "skipped"
                          ELSE IF dbOk THEN "ok" ELSE "raised"
    /\ rcalls' = Append(rcalls, "fetch_from_postgres")
    /\ UNCHANGED <<rteam, rflow, rprompt, rplanner, rllm, rpc, rtools, rext, rcrmin, rcrm, rnote, rout>>
    /\ UNCHANGED appVars

\* The planner calls the CRM tool; a tool that raises ends executor.ainvoke
\* with that exception.
CallCrm ==
    /\ \E tool \in CrmTools :
          /\ MayCall(tool)
          /\ \E zoho \in ZohoOutcomes :
                LET out == IF tool = "insert_into_zoho"
                           THEN insert_into_zoho(rlead, zoho)
                           ELSE insert_into_odoo(rlead)
                IN /\ rcrm' = <<out>>
                   /\ IF Raised(out)
                      THEN rpc' = "error" /\ rlead' = rlead
                      ELSE rpc' = rpc /\ rlead' = Threaded(out.lead_info)
          /\ rcalls' = Append(rcalls, tool)
    /\ rcrmin' = <<rlead>>
    /\ UNCHANGED <<rquery, rteam, rflow, rprompt, rplanner, rllm, rtools, rext, renr, rnote, rout>>
    /\ UNCHANGED appVars

CallNotify ==
    /\ \E tool \in NotifyTools :
          /\ MayCall(tool)
          /\ \E gmailOk \in BOOLEAN :
                LET out == IF tool = "send_gmail_notification"
                           THEN send_gmail_notification(gmailOk)
                           ELSE send_outlook_notification
                IN /\ rnote' = <<out>>
                   /\ rpc' = IF Raised(out) THEN "error" ELSE rpc
          /\ rcalls' = Append(rcalls, tool)
    /\ UNCHANGED <<rquery, rteam, rflow, rprompt, rplanner, rllm, rtools, rlead, rext, renr, rcrmin, rcrm, rout>>
    /\ UNCHANGED appVars

\* The planner emits its final answer; handle_message returns result["output"].
Finish ==
    /\ rpc = "planning"
    /\ \/ /\ rplanner = "free"
          /\ rout' \in {SuccessText, FailureText}
       \/ /\ rplanner # "free"
          /\ Len(rcalls) = Len(rtools)
          /\ rout' = IF rcrm # <<>> /\ rcrm[1].success THEN SuccessText ELSE FailureText
    /\ rpc' = "done"
    /\ UNCHANGED <<rquery, rteam, rflow, rprompt, rplanner, rllm, rtools, rcalls, rlead, rext, renr, rcrmin, rcrm, rnote>>
    /\ UNCHANGED appVars

\* executor.ainvoke raises (planner LLM error, unparsable planner output).
PlannerRaises ==
    /\ rpc = "planning"
    /\ rpc' = "error"
    /\ UNCHANGED <<rquery, rteam, rflow, rprompt, rplanner, rllm, rtools, rcalls, rlead, rext, renr, rcrmin, rcrm,
                   rnote, rout>>
    /\ UNCHANGED appVars

RunNext ==
    \/ ResolveFlow
    \/ Build
    \/ BuildFails
    \/ CallExtract
    \/ CallDataSource
    \/ CallCrm
    \/ CallNotify
    \/ Finish
    \/ PlannerRaises


----------------------------------------------------------------------------
(* Construction for any flow_config *)

FlowKeys == {"data_source", "crm", "notification_channel"}

\* Values a flow_config holds in the model: registry keys, channel names and
\* names nothing is registered under.
FlowValues(k) ==
    CASE k = "data_source" -> {"postgresql", "fetch_from_postgres", "sheets"}
      [] k = "crm" -> {"zoho", "odoo", "hubspot"}
      [] k = "notification_channel" -> {"gmail", "outlook", "slack", "send_gmail_notification"}

FlowConfigs ==
    UNION { {f \in [K -> UNION {FlowValues(k) : k \in FlowKeys}] : \A k \in K : f[k] \in FlowValues(k)}
             : K \in SUBSET FlowKeys }

\* A caller hands AgentOrchestrator(team_id, flow_config) some flow_config.
AnyFlow ==
    /\ rpc = "new"
    /\ rflow' \in FlowConfigs
    /\ rpc' = "resolved"
    /\ UNCHANGED <<rquery, rteam, rprompt, rplanner, rllm, rtools, rcalls, rlead, rext, renr,
                   rcrmin, rcrm, rnote, rout>>
    /\ UNCHANGED appVars

----------------------------------------------------------------------------
(* Extraction for any budget value *)

\* The budget values the extraction LLM writes into its JSON in the model:
\* strings, integers and null.
BudgetInputs ==
    {PyStr(<<"5",".","5","M">>),
      PyStr(<<"2"," ","m","i","l","l","i","o","n">>),
      PyStr(<<"7","5","0","k">>),
      PyStr(<<"5",",","0","0","0",",","0","0","0">>),
      PyStr(<<"E","G","P"," ","8",",","0","0","0",",","0","0","0">>),
      PyStr(<<"1",",","5","0","0","K">>),
      PyStr(<<"-","5","M">>),
      PyStr(<<"8","M">>),
      PyStr(<<"3","5","0","0","0","0","0">>),
      PyStr(<<"3",".","5">>),
      PyStr(<<"a","b","c">>),
      PyStr(<<>>),
      PyStr(<<"5","m">>),
      PyStr(<<"1",".","5"," ","t","h","o","u","s","a","n","d">>),
      PyStr(<<"2","M","I","L","L","I","O","N">>),
      PyStr(<<"M">>),
      PyStr(<<".","5","M">>),
      PyStr(<<"5",".","M">>),
      PyStr(<<"1",".","2",".","3","M">>),
      PyStr(<<"-","5">>),
      PyStr(<<"$","3",".","5","M">>),
      PyStr(<<"3",".","5"," ","M">>),
      PyStr(<<"1","2","K">>),
      PyStr(<<"0">>),
      PyStr(<<"1"," ","m">>),
      PyStr(<<"7",".","9"," ","m">>),
      PyStr(<<"2",".","5","k">>),
      PyStr(<<"8",",","0","0","0",",","0","0","0">>),
      PyInt(0), PyInt(8000000), PyInt(3500000), PyInt(0 - 5), PyNone}

----------------------------------------------------------------------------
(* The state of the application before any request *)

AppIdle ==
    /\ now = 0
    /\ processed_event_ids = {}
    /\ req = <<>>
    /\ db = <<>>
    /\ live_events = <<>>
    /\ monitor = [task |-> "none", selected |-> {}]
    /\ subscribers = {}

\* The orchestration runs alone.
InitRun == RunInit /\ AppIdle

SpecRun == InitRun /\ [][RunNext]_vars

----------------------------------------------------------------------------
(* api/slack.py: the ingress *)

EventIds == {<<"Ev", i>> : i \in 1..MaxEventIds}

NoEvent == <<>>

\* Teams with a row in slack_installations (get_slack_token_by_team finds a token).
InstalledTeams == {"team_default"}

\* is_duplicate that answers without recording the id.
is_duplicate_NoAdd(store, event_id) ==
    [dup |-> event_id \in store, store |-> store]

\* is_duplicate(event_id) on the module's set: the answer and the store after it.
is_duplicate(store, event_id) ==
    [dup |-> event_id \in store, store |-> store \cup {event_id}]

Deliveries == 1..MaxDeliveries

\* pc is the handler's position; snap, upd and reply are locals of the call in
\* progress and are cleared when it returns; orch tells how far the orchestrator
\* of the message got: "none", "construct_failed" or "ran".
\* _notify_subscribers outside its loop: the size the set iterator remembers,
\* the subscribers the loop has taken, the local set "disconnected" and the
\* subscriber being sent to.
NoIter == [used |-> 0, seen |-> {}, disconnected |-> {}, cur |-> ""]

IdleReq ==
    [pc |-> "idle", event_id |-> NoEvent, team |-> "", entered |-> FALSE, log_id |-> 0,
     orch |-> "none", iter |-> NoIter,
     upd |-> "none", snap |-> [status |-> "", error_message |-> ""],
     reply |-> "", posted |-> ""]

\* handle_slack_events up to the call of process_message: the event is looked up
\* in (and added to) the store, then the team's token is fetched.  A duplicate is
\* answered "duplicate_skipped"; a team without token raises HTTPException(404),
\* which the handler's except turns into a 500.
Deliver(h) ==
    /\ req[h].pc = "idle"
    /\ \A g \in Deliveries : g < h => req[g].pc # "idle"
    /\ \E e \in EventIds, t \in {"team_default", "T0UNKNOWN"} :
          \* new event ids come in the order of their numbers
          /\ e[2] <= Cardinality(processed_event_ids) + 1
          /\ LET d == is_duplicate(processed_event_ids, e)
                 r == [req[h] EXCEPT !.event_id = e, !.team = t]
             IN /\ processed_event_ids' = d.store
                /\ req' = [req EXCEPT ![h] =
                      IF d.dup THEN [r EXCEPT !.pc = "duplicate_skipped"]
                      ELSE IF t \notin InstalledTeams THEN [r EXCEPT !.pc = "http_500"]
                      ELSE [r EXCEPT !.pc = "log_commit", !.entered = TRUE]]
    /\ UNCHANGED <<now, db, live_events, monitor>>
    /\ UNCHANGED <<runVars, subscribers>>

----------------------------------------------------------------------------
(* services/event_logger.py: log_event and update_event_status *)

\* appendleft that drops the new entry instead of the oldest when full.
AppendLeft_KeepsOld(buf, x) ==
    IF Len(buf) >= LiveEventsMaxLen THEN buf ELSE <<x>> \o buf

\* deque.appendleft on a deque(maxlen=LiveEventsMaxLen)
AppendLeft(buf, x) ==
    LET b == <<x>> \o buf
    IN IF Len(b) > LiveEventsMaxLen THEN SubSeq(b, 1, LiveEventsMaxLen) ELSE b

\* The event dict built from a row.
EventDict(id, row) == [id |-> id, status |-> row.status, error_message |-> row.error_message]

\* "for i, event in enumerate(self.live_events): if event["id"] == event_id: ... break"
ReplaceLive(buf, id, ev) ==
    IF \E i \in DOMAIN buf : buf[i].id = id
    THEN LET k == CHOOSE i \in DOMAIN buf :
                     buf[i].id = id /\ \A j \in DOMAIN buf : buf[j].id = id => i <= j
         IN [buf EXCEPT ![k] = ev]
    ELSE buf

\* log_event: session.add + commit succeed; the row gets its id and created_at.
LogCommit(h) ==
    /\ req[h].pc = "log_commit"
    /\ db' = Append(db, [status |-> "processing", error_message |-> "", created_at |-> now])
    /\ req' = [req EXCEPT ![h].pc = "log_append", ![h].log_id = Len(db) + 1]
    /\ UNCHANGED <<now, processed_event_ids, live_events, monitor>>
    /\ UNCHANGED <<runVars, subscribers>>

\* log_event: the commit raises; log_event re-raises, process_message has no
\* handler around it, and handle_slack_events answers 500.
LogCommitFails(h) ==
    /\ req[h].pc = "log_commit"
    /\ req' = [req EXCEPT ![h].pc = "http_500"]
    /\ UNCHANGED <<now, processed_event_ids, db, live_events, monitor>>
    /\ UNCHANGED <<runVars, subscribers>>

\* _notify_subscribers up to its first await: with no subscriber it returns at
\* once; otherwise the loop takes a first subscriber and awaits the send.
StartNotify(r, returned, waiting) ==
    IF subscribers = {} THEN {[r EXCEPT !.pc = returned]}
    ELSE {[r EXCEPT !.pc = waiting,
                    !.iter = [used |-> Cardinality(subscribers), seen |-> {},
                              disconnected |-> {}, cur |-> w]] : w \in subscribers}

\* log_event after session.refresh: the event dict goes to the front of the
\* live buffer, the subscribers are notified and the id is returned to
\* process_message.
LogAppend(h) ==
    /\ req[h].pc = "log_append"
    /\ live_events' = AppendLeft(live_events, EventDict(req[h].log_id, db[req[h].log_id]))
    /\ \E r \in StartNotify(req[h], "run", "log_notify") : req' = [req EXCEPT ![h] = r]
    /\ UNCHANGED <<now, processed_event_ids, db, monitor>>
    /\ UNCHANGED <<runVars, subscribers>>

DefaultReply == "Request processed successfully"
ApologyReply == "Error processing your request. Please try again later."

\* "if not reply or not isinstance(reply, str)" / "if not text ..." / text.strip()
OrDefault(text) == IF text \in {"", " "} THEN DefaultReply ELSE text

\* process_message: the orchestrator is built and handle_message returns the
\* planner's final answer: the success text, or the failure text of a run
\* whose CRM tool returned success=false.
RunReturns(h) ==
    /\ req[h].pc = "run"
    /\ \E reply \in {SuccessText, FailureText} :
          req' = [req EXCEPT ![h].pc = "upd_select", ![h].upd = "success", ![h].orch = "ran",
                             ![h].reply = IF reply = "" THEN DefaultReply ELSE reply]
    /\ UNCHANGED <<now, processed_event_ids, db, live_events, monitor>>
    /\ UNCHANGED <<runVars, subscribers>>

\* process_message: AgentOrchestrator(...) raises (get_llm or _load_tools); no
\* executor is built and handle_message is not called.
ConstructFails(h) ==
    /\ req[h].pc = "run"
    /\ req' = [req EXCEPT ![h].pc = "upd_select", ![h].upd = "error", ![h].reply = ApologyReply,
                          ![h].orch = "construct_failed"]
    /\ UNCHANGED <<now, processed_event_ids, db, live_events, monitor>>
    /\ UNCHANGED <<runVars, subscribers>>

\* process_message: handle_message raises.
RunRaises(h) ==
    /\ req[h].pc = "run"
    /\ req' = [req EXCEPT ![h].pc = "upd_select", ![h].upd = "error", ![h].reply = ApologyReply,
                          ![h].orch = "ran"]
    /\ UNCHANGED <<now, processed_event_ids, db, live_events, monitor>>
    /\ UNCHANGED <<runVars, subscribers>>

\* update_event_status: the select loads the row into the session.
UpdateSelect(h) ==
    /\ req[h].pc = "upd_select"
    /\ req' = [req EXCEPT ![h].pc = "upd_commit",
                          ![h].snap = [status |-> db[req[h].log_id].status,
                                       error_message |-> db[req[h].log_id].error_message]]
    /\ UNCHANGED <<now, processed_event_ids, db, live_events, monitor>>
    /\ UNCHANGED <<runVars, subscribers>>

ExceptionText == "exception text"

\* The row after the session's UPDATE: the attributes that were assigned a value
\* different from the loaded one are written, the others keep what the table holds.
UpdatedRow(row, snap, status, error_message) ==
    [row EXCEPT !.status = IF status # snap.status THEN status ELSE @,
                !.error_message = IF error_message # "" /\ error_message # snap.error_message
                                  THEN error_message ELSE @]

\* update_event_status: the commit succeeds.
UpdateCommit(h) ==
    /\ req[h].pc = "upd_commit"
    /\ db' = [db EXCEPT ![req[h].log_id] =
                 UpdatedRow(@, req[h].snap, req[h].upd,
                            IF req[h].upd = "error" THEN ExceptionText ELSE "")]
    /\ req' = [req EXCEPT ![h].pc = "upd_refresh", ![h].snap = IdleReq.snap]
    /\ UNCHANGED <<now, processed_event_ids, live_events, monitor>>
    /\ UNCHANGED <<runVars, subscribers>>

\* update_event_status: the commit raises and the exception leaves the method.
\* Raised by the "success" update it lands in process_message's except, which
\* sets the apology and calls update_event_status("error"); raised by that
\* call it leaves process_message and the handler answers 500.
UpdateCommitFails(h) ==
    /\ req[h].pc = "upd_commit"
    /\ req' = [req EXCEPT ![h] =
                 IF req[h].upd = "success"
                 THEN [@ EXCEPT !.pc = "upd_select", !.upd = "error", !.reply = ApologyReply,
                                !.snap = IdleReq.snap]
                 ELSE [@ EXCEPT !.pc = "http_500", !.upd = "none", !.reply = "",
                                !.snap = IdleReq.snap]]
    /\ UNCHANGED <<now, processed_event_ids, db, live_events, monitor>>
    /\ UNCHANGED <<runVars, subscribers>>

\* update_event_status after session.refresh: the live entry is replaced by the
\* refreshed row, the subscribers are notified and the method returns.
UpdateRefresh(h) ==
    /\ req[h].pc = "upd_refresh"
    /\ live_events' = ReplaceLive(live_events, req[h].log_id,
                                  EventDict(req[h].log_id, db[req[h].log_id]))
    /\ \E r \in StartNotify(req[h], "post", "upd_notify") :
          req' = [req EXCEPT ![h] = IF r.pc = "post" THEN [r EXCEPT !.upd = "none"] ELSE r]
    /\ UNCHANGED <<now, processed_event_ids, db, monitor>>
    /\ UNCHANGED <<runVars, subscribers>>

Websockets == {"ws1", "ws2"}

\* subscribe_to_events: the websocket is added to the set.
Subscribe(w) ==
    /\ w \notin subscribers
    /\ subscribers' = subscribers \cup {w}
    /\ UNCHANGED <<now, processed_event_ids, req, db, live_events, monitor>>
    /\ UNCHANGED runVars

\* subscribe_to_events: the first send raises or the task is cancelled, and the
\* finally clause discards the websocket.
Unsubscribe(w) ==
    /\ w \in subscribers
    /\ subscribers' = subscribers \ {w}
    /\ UNCHANGED <<now, processed_event_ids, req, db, live_events, monitor>>
    /\ UNCHANGED runVars

\* What the caller of _notify_subscribers does when it returns, and when the
\* set iterator raises RuntimeError ("Set changed size during iteration"):
\* log_event re-raises and process_message has no handler around it;
\* update_event_status re-raises into process_message's except when called
\* with "success", and out of process_message when called from that except.
AfterNotify(r, raised) ==
    LET q == [r EXCEPT !.iter = NoIter]
    IN IF ~raised
       THEN IF r.pc = "log_notify" THEN [q EXCEPT !.pc = "run"]
            ELSE [q EXCEPT !.pc = "post", !.upd = "none"]
       ELSE IF r.pc = "log_notify" THEN [q EXCEPT !.pc = "http_500"]
            ELSE IF r.upd = "success"
                 THEN [q EXCEPT !.pc = "upd_select", !.upd = "error", !.reply = ApologyReply]
                 ELSE [q EXCEPT !.pc = "http_500", !.upd = "none", !.reply = ""]

\* _notify_subscribers: the awaited send_text returns (ok) or raises, a failed
\* subscriber goes to "disconnected", and the loop asks the set iterator for
\* the next subscriber: the iterator raises when the set's size is no longer
\* the one it started with, stops after as many subscribers as that size, and
\* otherwise hands out one not yet taken.  After the loop the disconnected
\* subscribers are removed from the set.
NotifyNext(h) ==
    /\ req[h].pc \in {"log_notify", "upd_notify"}
    /\ \E ok \in BOOLEAN :
          LET it == req[h].iter
              seen == it.seen \cup {it.cur}
              disconnected == IF ok THEN it.disconnected ELSE it.disconnected \cup {it.cur}
              rest == subscribers \ seen
          IN IF Cardinality(subscribers) # it.used
             THEN /\ req' = [req EXCEPT ![h] = AfterNotify(req[h], TRUE)]
                  /\ subscribers' = subscribers
             ELSE IF Cardinality(seen) >= it.used \/ rest = {}
             THEN /\ req' = [req EXCEPT ![h] = AfterNotify(req[h], FALSE)]
                  /\ subscribers' = subscribers \ disconnected
             ELSE /\ \E w \in rest :
                        req' = [req EXCEPT ![h].iter = [it EXCEPT !.seen = seen,
                                                                   !.disconnected = disconnected,
                                                                   !.cur = w]]
                  /\ subscribers' = subscribers
    /\ UNCHANGED <<now, processed_event_ids, db, live_events, monitor>>
    /\ UNCHANGED runVars

\* post_message: chat_postMessage with the text.
Post(h) ==
    /\ req[h].pc = "post"
    /\ req' = [req EXCEPT ![h].pc = "ok", ![h].posted = OrDefault(req[h].reply),
                          ![h].reply = ""]
    /\ UNCHANGED <<now, processed_event_ids, db, live_events, monitor>>
    /\ UNCHANGED <<runVars, subscribers>>

----------------------------------------------------------------------------
(* services/event_logger.py: the timeout monitor *)

timeout_minutes == 5

TimeoutText == "Event timed out after 5 minutes"

\* The rows the sweep's query returns.
TimedOut(rows, clock) ==
    {id \in DOMAIN rows : rows[id].status = "processing"
                          /\ rows[id].created_at < clock - timeout_minutes}

\* on_startup: start_timeout_monitor creates the monitor task.
StartMonitor ==
    /\ monitor.task = "none"
    /\ monitor' = [monitor EXCEPT !.task = "running"]
    /\ UNCHANGED <<now, processed_event_ids, req, db, live_events>>
    /\ UNCHANGED <<runVars, subscribers>>

RECURSIVE MarkLive(_, _)
MarkLive(buf, ids) ==
    IF ids = {} THEN buf
    ELSE LET id == CHOOSE i \in ids : TRUE
         IN MarkLive(ReplaceLive(buf, id, [id |-> id, status |-> "error",
                                           error_message |-> TimeoutText]),
                     ids \ {id})

\* _check_and_timeout_events: the query returns; every returned event is set to
\* "error" in the session and in the live buffer; the commit is still to come.
\* (The monitor runs with no dashboard connected: each _notify_subscribers call
\* of the loop returns at once.)
SweepSelect ==
    /\ monitor.task = "running"
    /\ monitor.selected = {}
    /\ LET ids == TimedOut(db, now)
       IN /\ monitor' = [monitor EXCEPT !.selected = ids]
          /\ live_events' = MarkLive(live_events, ids)
    /\ UNCHANGED <<now, processed_event_ids, req, db>>
    /\ UNCHANGED <<runVars, subscribers>>

\* _check_and_timeout_events: the commit writes status and error_message of the
\* selected rows; the loop sleeps until the next sweep.
SweepCommit ==
    /\ monitor.task = "running"
    /\ monitor.selected # {}
    /\ db' = [id \in DOMAIN db |->
                 IF id \in monitor.selected
                 THEN [db[id] EXCEPT !.status = "error", !.error_message = TimeoutText]
                 ELSE db[id]]
    /\ monitor' = [monitor EXCEPT !.selected = {}]
    /\ UNCHANGED <<now, processed_event_ids, req, live_events>>
    /\ UNCHANGED <<runVars, subscribers>>

\* The monitor task dies with the first failing sweep.
SweepCommitFails_Stops ==
    /\ monitor.task = "running"
    /\ monitor.selected # {}
    /\ monitor' = [task |-> "crashed", selected |-> {}]
    /\ UNCHANGED <<now, processed_event_ids, req, db, live_events>>
    /\ UNCHANGED <<runVars, subscribers>>

\* _check_and_timeout_events: the commit raises; the except logs it and the loop
\* sleeps until the next sweep.
SweepCommitFails ==
    /\ monitor.task = "running"
    /\ monitor.selected # {}
    /\ monitor' = [monitor EXCEPT !.selected = {}]
    /\ UNCHANGED <<now, processed_event_ids, req, db, live_events>>
    /\ UNCHANGED <<runVars, subscribers>>

\* A minute passes.
Tick ==
    /\ now < MaxTime
    /\ now' = now + 1
    /\ UNCHANGED <<processed_event_ids, req, db, live_events, monitor>>
    /\ UNCHANGED <<runVars, subscribers>>

----------------------------------------------------------------------------
(* The application: requests, the logger and the monitor *)

RunIdle ==
    /\ rteam = "team_default"
    /\ rplanner = "scripted"
    /\ rllm = [kind |-> "no_json", json |-> EmptyJson]
    /\ rflow = EmptyFlow
    /\ rprompt = <<>>
    /\ rpc = "new"
    /\ rtools = <<>>
    /\ rcalls = <<>>
    /\ rlead = <<>>
    /\ rext = <<>> /\ renr = <<>> /\ rcrmin = <<>> /\ rcrm = <<>> /\ rnote = <<>>
    /\ rquery = "none"
    /\ rout = ""

Init ==
    /\ RunIdle
    /\ now = 0
    /\ processed_event_ids = {}
    /\ req = [h \in Deliveries |-> IdleReq]
    /\ db = <<>>
    /\ live_events = <<>>
    /\ monitor = [task |-> "none", selected |-> {}]
    /\ subscribers = {}

Next ==
    \/ \E h \in Deliveries : Deliver(h)
    \/ \E h \in Deliveries : LogCommit(h)
    \/ \E h \in Deliveries : LogCommitFails(h)
    \/ \E h \in Deliveries : LogAppend(h)
    \/ \E h \in Deliveries : RunReturns(h)
    \/ \E h \in Deliveries : ConstructFails(h)
    \/ \E h \in Deliveries : RunRaises(h)
    \/ \E h \in Deliveries : UpdateSelect(h)
    \/ \E h \in Deliveries : UpdateCommit(h)
    \/ \E h \in Deliveries : UpdateCommitFails(h)
    \/ \E h \in Deliveries : UpdateRefresh(h)
    \/ \E h \in Deliveries : Post(h)
    \/ StartMonitor
    \/ SweepSelect
    \/ SweepCommit
    \/ SweepCommitFails
    \/ Tick

Spec == Init /\ [][Next]_vars

\* Orchestrators built for any flow_config.
InitConfig == RunIdle /\ AppIdle

ConfigNext == AnyFlow \/ Build \/ BuildFails

SpecConfig == InitConfig /\ [][ConfigNext]_vars

\* Messages whose extraction answer carries any of the budget values.
InitBudget ==
    /\ rteam = "team_default"
    /\ rplanner = "scripted"
    /\ rllm \in {[kind |-> "json", json |-> [EmptyJson EXCEPT !.budget = b]] : b \in BudgetInputs}
    /\ rflow = EmptyFlow
    /\ rprompt = <<>>
    /\ rpc = "new"
    /\ rtools = <<>>
    /\ rcalls = <<>>
    /\ rlead = <<>>
    /\ rext = <<>> /\ renr = <<>> /\ rcrmin = <<>> /\ rcrm = <<>> /\ rnote = <<>>
    /\ rquery = "none"
    /\ rout = ""
    /\ AppIdle

BudgetNext == ResolveFlow \/ Build \/ BuildFails \/ CallExtract

SpecBudget == InitBudget /\ [][BudgetNext]_vars

\* The lead fields the extraction LLM writes into its JSON for the catalog
\* query of the model.
FetchLocations ==
    {PyStr(Chars("NewCairo")), PyStr(<<" ">> \o Chars("NewCairo")),
     PyStr(<<"c","a","i","r","o">>), PyStr(<<"N","e","w","_","C","a","i","r","o">>),
     PyStr(<<"%">>), PyStr(<<"Z","a","y","e","d">>), PyNone}

FetchTypes ==
    {PyStr(Chars("Villa")), PyStr(Chars("villa") \o <<" ">>),
     PyStr(<<"v","_","l","l","a">>), PyStr(<<"f","l","a","t">>), PyNone}

FetchBedrooms == {PyStr(<<"3">>), PyStr(<<>>), PyStr(<<"5">>), PyStr(Chars("3BR")), PyInt(4)}

FetchBudgets ==
    {PyInt(8000000), PyInt(8400000), PyInt(8400001), PyInt(7600000), PyInt(7599999),
     PyInt(1000000), PyInt(0)}

\* Messages whose extraction answer carries any of these fields.
InitFetch ==
    /\ rteam = "team_default"
    /\ rplanner = "scripted"
    /\ rllm \in {[kind |-> "json",
                  json |-> [EmptyJson EXCEPT !.location = l, !.property_type = t,
                                             !.bedrooms = b, !.budget = g]] :
                     l \in FetchLocations, t \in FetchTypes, b \in FetchBedrooms,
                     g \in FetchBudgets}
    /\ rflow = EmptyFlow
    /\ rprompt = <<>>
    /\ rpc = "new"
    /\ rtools = <<>>
    /\ rcalls = <<>>
    /\ rlead = <<>>
    /\ rext = <<>> /\ renr = <<>> /\ rcrmin = <<>> /\ rcrm = <<>> /\ rnote = <<>>
    /\ rquery = "none"
    /\ rout = ""
    /\ AppIdle

FetchNext == ResolveFlow \/ Build \/ BuildFails \/ CallExtract \/ CallDataSource

SpecFetch == InitFetch /\ [][FetchNext]_vars

\* The dicts a planner hands to the CRM tool in the model: the team_id key
\* absent, empty, blank, a team's id, or null.
CrmLeads ==
    {DefaultLead}
    \cup {[k \in DOMAIN DefaultLead \cup {"team_id"} |->
              IF k = "team_id" THEN t ELSE DefaultLead[k]] :
             t \in {"", " ", "team_default", "T0UNKNOWN", NoneId}}

\* Runs of a free planner that writes the CRM tool's argument itself.
InitCrm ==
    /\ rteam \in Teams
    /\ rplanner = "free"
    /\ rllm \in {[kind |-> "no_json", json |-> EmptyJson]}
    /\ rflow = EmptyFlow
    /\ rprompt = <<>>
    /\ rpc = "new"
    /\ rtools = <<>>
    /\ rcalls = <<>>
    /\ rlead \in CrmLeads
    /\ rext = <<>> /\ renr = <<>> /\ rcrmin = <<>> /\ rcrm = <<>> /\ rnote = <<>>
    /\ rquery = "none"
    /\ rout = ""
    /\ AppIdle

CrmNext == ResolveFlow \/ Build \/ BuildFails \/ CallCrm \/ Finish \/ PlannerRaises

SpecCrm == InitCrm /\ [][CrmNext]_vars

\* The application with dashboards connecting and disconnecting, the database
\* and the runs working.
DashNext ==
    \/ \E h \in Deliveries : Deliver(h)
    \/ \E h \in Deliveries : LogCommit(h)
    \/ \E h \in Deliveries : LogAppend(h)
    \/ \E h \in Deliveries : RunReturns(h)
    \/ \E h \in Deliveries : UpdateSelect(h)
    \/ \E h \in Deliveries : UpdateCommit(h)
    \/ \E h \in Deliveries : UpdateRefresh(h)
    \/ \E h \in Deliveries : NotifyNext(h)
    \/ \E h \in Deliveries : Post(h)
    \/ \E w \in Websockets : Subscribe(w)
    \/ \E w \in Websockets : Unsubscribe(w)

SpecDash == Init /\ [][DashNext]_vars

\* The scheduling the monitor relies on: the clock advances, the startup hook
\* and the monitor task keep being run by the event loop, and the database does
\* not refuse the sweep's commit for ever.
LiveSpec ==
    /\ Init
    /\ [][Next]_vars
    /\ WF_vars(Tick)
    /\ WF_vars(StartMonitor)
    /\ WF_vars(SweepSelect)
    /\ SF_vars(SweepCommit)

----------------------------------------------------------------------------
(* Claims about one orchestration run *)

\* The place of a tool in the directive's order.
StepRank(tool) ==
    CASE tool = "extract_lead_info" -> 1
      [] tool \in DataSourceTools -> 2
      [] tool \in CrmTools -> 3
      [] tool \in NotifyTools -> 4

\* A finished run in which the planner followed the four-step script,
\* passing each tool's returned lead data to the next tool as it is (the
\* tagging planner adding nothing but the run's team_id).
ScriptedRunDone ==
    /\ rplanner \in {"scripted", "tagging"}
    /\ rpc = "done"
    /\ Len(rcalls) = 4
    /\ rcalls[1] = "extract_lead_info"
    /\ rcalls[2] \in DataSourceTools
    /\ rcalls[3] \in CrmTools
    /\ rcalls[4] \in NotifyTools

\* C1: under the scripted planner (extraction, data source, CRM, notification,
\* once each, each returned lead data passed on unchanged) the CRM tool receives
\* every field extraction produced, with the same value, plus the
\* matched_projects of enrichment, and the run ends with the success text
\* whenever the CRM tool reports success.
C1_ScriptedRunThreadsExtraction ==
    ScriptedRunDone =>
        /\ \A k \in DOMAIN rext[1] : k \in DOMAIN rcrmin[1] /\ rcrmin[1][k] = rext[1][k]
        /\ rcrmin[1].matched_projects = renr[1].matched_projects
        /\ (rcrm[1].success => rout = SuccessText)

\* C2: when extraction yields location "New Cairo", property_type "villa",
\* budget 8000000 and an empty bedrooms value, and the catalog query runs
\* against the catalog holding the New Cairo villa project priced 7.8M to 8.2M
\* with 3 to 4 bedrooms, enrichment's matched_projects holds that project's name.
C2_EnrichmentFindsTheVilla ==
    ( /\ rcalls = <<"extract_lead_info", "fetch_from_postgres">>
      /\ rquery = "ok"
      /\ rext[1].location = Chars("NewCairo")
      /\ rext[1].property_type = Chars("villa")
      /\ rext[1].budget = 8000000
      /\ rext[1].bedrooms = PyStr(<<>>) )
    => \E i \in DOMAIN renr[1].matched_projects : renr[1].matched_projects[i] = "Palm Villas"

\* C3: in every run each capability is invoked at most once and in the order
\* extraction, enrichment, CRM insertion, notification (one call at a time:
\* rcalls is the sequence in which the executor ran them).
C3_EachCapabilityOnceInOrder ==
    \A i, j \in DOMAIN rcalls : i < j => StepRank(rcalls[i]) < StepRank(rcalls[j])

----------------------------------------------------------------------------
(* Claims about the application *)

\* A delivery whose handling is over.
Answered(h) == req[h].pc \in {"ok", "http_500", "duplicate_skipped"}

\* C4: every message that reached process_message gets a non-empty reply posted,
\* also when an event-log write or update fails: once its handling is over, a
\* text has been posted.
C4_ReplyAlwaysPosted ==
    \A h \in Deliveries : (req[h].entered /\ Answered(h)) => req[h].posted # ""

\* A step that ends a sweep (its commit, successful or not).
SweepEnds == monitor.selected # {} /\ monitor'.selected = {}

\* C5: a sweep changes exactly the rows that are "processing" and older than the
\* timeout, to "error" with a non-empty error_message; a row that holds "success"
\* or "error", or a younger "processing" row, is the same after the sweep.
C5_SweepChangesOnlyStaleProcessing ==
    [][SweepEnds =>
         \A id \in DOMAIN db :
            IF id \in TimedOut(db, now)
            THEN db'[id] = db[id]
                 \/ (db'[id].status = "error" /\ db'[id].error_message # "")
            ELSE db'[id] = db[id]]_vars

\* C6: with the monitor started and scheduled and the clock advancing, every
\* row created "processing" (early enough for the model's clock to pass its
\* timeout) eventually holds "success" or "error", whatever its run does.
C6_ProcessingEventuallyResolved ==
    \A id \in Deliveries :
        (id \in DOMAIN db /\ db[id].status = "processing"
                          /\ db[id].created_at + timeout_minutes < MaxTime)
        ~> (id \in DOMAIN db /\ db[id].status \in {"success", "error"})

\* C6's case: a row timed out by the sweep while its run has not returned.
C6_Witness_TimedOutWhileRunning ==
    \E h \in Deliveries :
        /\ req[h].pc = "run"
        /\ db[req[h].log_id].status = "error"
        /\ db[req[h].log_id].error_message = TimeoutText

\* Deliveries of event e that were not answered "duplicate_skipped".
Proceeded(e) ==
    {h \in Deliveries : req[h].event_id = e /\ req[h].pc # "duplicate_skipped"}

\* C7: of the deliveries of one event id, exactly one gets past the
\* de-duplication, and at most one is handed to process_message, also when a
\* second delivery arrives while the first is still being handled.
C7_OneDeliveryProceeds ==
    \A e \in EventIds :
        (\E h \in Deliveries : req[h].event_id = e) =>
            /\ Cardinality(Proceeded(e)) = 1
            /\ Cardinality({h \in Deliveries : req[h].event_id = e /\ req[h].entered}) <= 1

\* C7's case: a redelivery suppressed while the first delivery is in its run.
C7_Witness_ConcurrentRedelivery ==
    \E g, h \in Deliveries :
        /\ g # h
        /\ req[g].event_id = req[h].event_id
        /\ req[g].pc = "run"
        /\ req[h].pc = "duplicate_skipped"

\* C8: the store consulted on the ingress path never holds more ids than the
\* capacity of the bounded cache.
C8_DedupStoreBounded == Cardinality(processed_event_ids) <= DedupMaxLen

\* Handling ended before the orchestration run started and before any row was
\* written: no token for the team, or the first event-log commit failed.
FailedBeforeRun(h) == req[h].pc = "http_500" /\ req[h].log_id = 0

\* C9: a delivery is suppressed as a duplicate only if some delivery of the same
\* event id got (or may still get) to its run; when every other delivery of the
\* event failed before its run started, the redelivery is processed.
C9_RedeliveryAfterEarlyFailureProcessed ==
    [][\A h \in Deliveries :
          (req[h].pc = "idle" /\ req'[h].pc = "duplicate_skipped") =>
              \E g \in Deliveries :
                  /\ req[g].event_id = req'[h].event_id
                  /\ req[g].pc # "duplicate_skipped"
                  /\ ~FailedBeforeRun(g)]_vars

\* The ids in the buffer, front first.
LiveIds(buf) == [i \in DOMAIN buf |-> buf[i].id]

\* A log_event call puts its event in the buffer in this step.
Appends(h) == req[h].pc = "log_append" /\ req'[h].pc = "run"

----------------------------------------------------------------------------
(* Claims about construction and flow resolution *)

\* The registry entry a flow_config key stands for, if any; a notification
\* channel goes through the alias mapping first.
ChannelAlias(c) ==
    IF c = "gmail" THEN "send_gmail_notification"
    ELSE IF c = "outlook" THEN "send_outlook_notification" ELSE c

EntryOf(flow_config, key) ==
    IF key \notin DOMAIN flow_config THEN <<>>
    ELSE LET k == IF key = "notification_channel" THEN ChannelAlias(flow_config[key])
                  ELSE flow_config[key]
         IN IF k \in RegistryKeys THEN <<TOOL_REGISTRY[k]>> ELSE <<>>

\* C11: for any flow_config the capability list is the extraction capability
\* followed by the registry entries of data_source, crm and channel, in that
\* order, a key that does not resolve being skipped; loading the tools raises
\* only when nothing resolves.
C11_ToolsInOrderMissingSkipped ==
    (rpc # "new") =>
        /\ (Raised(load_tools(rflow)) =>
                /\ "extract_lead_info" \notin RegistryKeys
                /\ \A k \in FlowKeys : EntryOf(rflow, k) = <<>>)
        /\ (rpc = "planning" =>
                rtools = <<"extract_lead_info">> \o EntryOf(rflow, "data_source")
                         \o EntryOf(rflow, "crm") \o EntryOf(rflow, "notification_channel"))

\* C11's case: a flow_config with an unregistered data source and an unknown
\* channel was built, and only those two are missing from the list.
C11_Witness_MissingKeysSkipped ==
    /\ rpc = "planning"
    /\ DOMAIN rflow = FlowKeys
    /\ rflow["data_source"] = "sheets"
    /\ rflow["notification_channel"] = "slack"
    /\ rtools = <<"extract_lead_info", "insert_into_odoo">>

\* C13: every key of every entry of the flow table resolves in the registry.
C13_FlowTableResolves ==
    (rpc # "new" /\ rteam \in DOMAIN user_flows) =>
        \A k \in DOMAIN rflow : EntryOf(rflow, k) # <<>>

\* C14: the four names written into the prompt are the names of the tools of
\* the list built for the same run, in the same order.
C14_PromptNamesTheTools ==
    (rpc = "planning" /\ rteam \in DOMAIN user_flows) =>
        /\ Len(rprompt) = 4
        /\ \A i \in 1..4 : \E j \in DOMAIN rtools :
              /\ rtools[j] = rprompt[i]
              /\ \A i2 \in 1..4, j2 \in DOMAIN rtools :
                    (i2 < i /\ rtools[j2] = rprompt[i2]) => j2 < j

\* C15: a flow_config with an unknown channel name still gets a notification
\* capability in its tool list.
C15_UnknownChannelGetsDefault ==
    ( /\ rpc = "planning"
      /\ "notification_channel" \in DOMAIN rflow
      /\ rflow["notification_channel"] \notin {"gmail", "outlook"} )
    => \E i \in DOMAIN rtools : rtools[i] \in NotifyTools

\* C16: get_user_flow never raises, returns the configured entry for a
\* configured team and the entry of "team_default" for any other team.
C16_FlowResolutionTotal ==
    (rpc # "new") =>
        /\ ~Raised(rflow)
        /\ rteam = "team_default" =>
              rflow = [data_source |-> "postgresql", crm |-> "zoho",
                       notification_channel |-> "gmail"]
        /\ rteam = "T090NR297QD:" =>
              rflow = [data_source |-> "postgresql", crm |-> "zoho",
                       notification_channel |-> "outlook"]
        /\ rteam = "T01ABCDE123" =>
              rflow = [data_source |-> "sheets", crm |-> "zoho",
                       notification_channel |-> "outlook"]
        /\ rteam \notin {"team_default", "T090NR297QD:", "T01ABCDE123"} =>
              rflow = [data_source |-> "postgresql", crm |-> "zoho",
                       notification_channel |-> "gmail"]

\* C16's case: an orchestrator was built for a team the table does not hold.
C16_Witness_UnknownTeamBuilt ==
    /\ rteam = "T0UNKNOWN"
    /\ rpc = "planning"
    /\ rtools = <<"extract_lead_info", "fetch_from_postgres", "insert_into_zoho",
                  "send_gmail_notification">>

\* C12: when the orchestrator's construction fails, the message's event log
\* ends "error" with an error_message and the user is sent the apology.
C12_ConstructionFailureReported ==
    \A h \in Deliveries :
        (req[h].orch = "construct_failed" /\ Answered(h)) =>
            /\ req[h].posted = ApologyReply
            /\ db[req[h].log_id].status = "error"
            /\ db[req[h].log_id].error_message # ""

----------------------------------------------------------------------------
(* Claims about extraction *)

LeadInfoKeys ==
    {"first_name", "last_name", "phone", "location", "property_type", "bedrooms",
     "budget", "team_id"}

\* C17: the dict extraction returns, on the normal and on the failure path,
\* holds every fixed key, team_id included, and an integer budget.
C17_ExtractionHasEveryKey ==
    (rext # <<>>) =>
        /\ LeadInfoKeys \subseteq DOMAIN rext[1]
        /\ rext[1].budget \in Int

EndsWith(s, suffix) ==
    Len(s) >= Len(suffix) /\ SubSeq(s, Len(s) - Len(suffix) + 1, Len(s)) = suffix

DropLast(s, n) == SubSeq(s, 1, Len(s) - n)

\* The amount a string of the form {number}{M|MILLION|K|THOUSAND} denotes (any
\* case, spaces allowed), or <<>> for a string of another form.
SuffixAmount(s) ==
    LET b == RemoveSpaces(StrUpper(s))
        number == IF EndsWith(b, <<"M","I","L","L","I","O","N">>) THEN DropLast(b, 7)
                  ELSE IF EndsWith(b, <<"T","H","O","U","S","A","N","D">>) THEN DropLast(b, 8)
                  ELSE IF EndsWith(b, <<"M">>) \/ EndsWith(b, <<"K">>) THEN DropLast(b, 1)
                  ELSE <<>>
        mult == IF EndsWith(b, <<"M">>) \/ EndsWith(b, <<"M","I","L","L","I","O","N">>)
                THEN 1000000 ELSE 1000
    IN IF number # <<>> /\ MatchesPlainNumber(number)
       THEN <<TruncScaled(FloatOfStr(number).ok, mult)>>
       ELSE <<>>

\* The budget the extraction LLM wrote, when it is a string.
BudgetString == IF IsStr(rllm.json.budget) THEN rllm.json.budget[2] ELSE <<>>

\* C18: a number followed by M or MILLION is normalized to the number times
\* 1,000,000, one followed by K or THOUSAND to the number times 1,000.
C18_SuffixMultipliers ==
    (rext # <<>> /\ rllm.kind = "json" /\ SuffixAmount(BudgetString) # <<>>) =>
        rext[1].budget = SuffixAmount(BudgetString)[1]

RECURSIVE RemoveChar(_, _)
RemoveChar(s, c) ==
    IF s = <<>> THEN <<>>
    ELSE (IF Head(s) = c THEN <<>> ELSE <<Head(s)>>) \o RemoveChar(Tail(s), c)

\* The string without thousands separators and without a leading currency
\* symbol ("EGP", "$").
StripMoney(s) ==
    LET b == RemoveChar(RemoveSpaces(StrUpper(s)), ",")
    IN IF Len(b) >= 3 /\ SubSeq(b, 1, 3) = <<"E","G","P">> THEN SubSeq(b, 4, Len(b))
       ELSE IF b # <<>> /\ Head(b) = "$" THEN Tail(b)
       ELSE b

\* The amount a string with separators or a currency symbol denotes, or <<>>.
MoneyAmount(s) ==
    LET t == StripMoney(s)
    IN IF t = RemoveSpaces(StrUpper(s)) THEN <<>>
       ELSE IF MatchesPlainNumber(t) THEN <<TruncScaled(FloatOfStr(t).ok, 1)>>
       ELSE SuffixAmount(t)

\* C19: thousands separators and currency symbols are stripped before parsing,
\* so such a string is normalized to the amount it denotes.
C19_SeparatorsAndCurrencyStripped ==
    (rext # <<>> /\ rllm.kind = "json" /\ MoneyAmount(BudgetString) # <<>>) =>
        rext[1].budget = MoneyAmount(BudgetString)[1]

\* C20: whatever the budget value, a string or a number, the normalized budget
\* is a non-negative integer.
C20_BudgetNonNegative ==
    (rext # <<>>) => (rext[1].budget \in Int /\ rext[1].budget >= 0)


----------------------------------------------------------------------------
(* Claims about enrichment *)

\* The arguments the scripted planner called the catalog lookup with.
FetchInput == FetchArgs(rext[1])

\* The catalog projects the lead's values select when they are read as plain
\* text (surrounding blanks aside).
SubstringMatches ==
    LET a == FetchInput
        bedrooms == IntOrZero(a.bedrooms).ok
    IN {p \in Range(Catalog) :
            /\ Contains(StrLower(p.location), StrLower(StrStrip(a.location)))
            /\ Contains(StrLower(p.property_type), StrLower(StrStrip(a.property_type)))
            /\ p.min_price <= a.budget + 200000
            /\ p.max_price >= a.budget - 200000
            /\ p.min_bedrooms <= bedrooms
            /\ p.max_bedrooms >= bedrooms}

\* C21: when the catalog query ran, matched_projects holds exactly the names
\* of the projects whose location and property_type contain the lead's values
\* as case-insensitive substrings, whose price range overlaps
\* [budget - 200000, budget + 200000] and whose bedroom range contains the
\* requested count; it is the empty list when there is none.
C21_MatchedExactlyTheSubstringMatches ==
    (renr # <<>> /\ rquery = "ok") =>
        /\ Range(renr[1].matched_projects) = {p.name : p \in SubstringMatches}
        /\ Len(renr[1].matched_projects) = Cardinality(SubstringMatches)

\* C23: when enrichment fails (the catalog query raises, or bedrooms cannot be
\* converted to a number), the result holds every input field unchanged and an
\* empty matched_projects.
C23_FailedEnrichmentReturnsInput ==
    (renr # <<>> /\ rquery \in {"raised", "skipped"}) =>
        /\ renr[1].matched_projects = <<>>
        /\ \A k \in DOMAIN FetchInput : renr[1][k] = FetchInput[k]


\* The extraction LLM failed: it raised, answered with an invalid object, or
\* answered with no parsable JSON.
ExtractionFailed == rllm.kind \in {"llm_error", "invalid", "no_json"}

\* C22: when lead extraction fails, extract_lead_info returns the all-default
\* LeadInfo (empty strings, budget 0) instead of raising, and the enrichment
\* step that follows is given that object: empty text fields, budget 0.
C22_FailedExtractionGivesDefaults ==
    ExtractionFailed =>
        /\ rext # <<>> => (~Raised(rext[1]) /\ rext[1] = DefaultLead)
        /\ (renr # <<>> /\ rplanner = "scripted") =>
               /\ \A k \in {"first_name", "last_name", "phone", "location", "property_type"} :
                      renr[1][k] = <<>>
               /\ renr[1].budget = 0
               /\ renr[1].matched_projects = <<>>

\* A run whose extraction failed and whose catalog lookup was made all the same.
C22_Witness_EnrichmentAfterFailedExtraction ==
    /\ ExtractionFailed
    /\ rext # <<>> /\ renr # <<>>
    /\ rcalls[1] = "extract_lead_info"
    /\ rquery = "ok"

----------------------------------------------------------------------------
(* Claims about the CRM and notification steps *)

\* C24: insert_into_zoho never raises: whatever dict it is given and whatever
\* the provider does, the result is a structured one with a success flag and a
\* message; a missing or empty team_id, a missing configuration, a provider
\* exception and a non-SUCCESS first record give success=false, and success=true
\* is given only for a first record with code SUCCESS.
C24_CrmInsertionNeverRaises ==
    (rcrm # <<>> /\ rcalls[Len(rcalls)] = "insert_into_zoho") =>
        /\ ~Raised(rcrm[1])
        /\ \A zoho \in ZohoOutcomes :
              LET r == insert_into_zoho(rcrmin[1], zoho)
              IN /\ ~Raised(r)
                 /\ {"success", "message"} \subseteq DOMAIN r
                 /\ r.success => zoho = "SUCCESS"
                 /\ StripId(Get(rcrmin[1], "team_id", "")) = "" => ~r.success

\* The step is a call of a notification tool.
NotifyStep ==
    /\ Len(rcalls') = Len(rcalls) + 1
    /\ rcalls'[Len(rcalls')] \in NotifyTools

\* C25: a notification failure is never fatal and never touches the CRM write:
\* the notification tool returns a value instead of raising and its call leaves
\* the run going, the CRM result and the answer as they were; once a planner
\* that follows the directive has notified, the CRM result no longer changes
\* (neither retried nor undone); and the final answer of such a run is decided
\* by the CRM result alone, whatever the notification returned.
C25_NotificationNeverTouchesCrm ==
    [][ /\ NotifyStep =>
              /\ ~Raised(rnote'[1])
              /\ rpc' = rpc
              /\ rcrm' = rcrm /\ rcrmin' = rcrmin /\ rout' = rout
        /\ (rnote # <<>> /\ rplanner # "free") => (rcrm' = rcrm /\ rcrmin' = rcrmin)
        /\ (rpc # "done" /\ rpc' = "done" /\ rplanner # "free") =>
              rout' = IF rcrm # <<>> /\ rcrm[1].success THEN SuccessText ELSE FailureText
      ]_vars

\* A run that inserted the lead, failed to send the mail and still answered
\* with the success text.
C25_Witness_FailedMailAfterInsert ==
    /\ rpc = "done"
    /\ rplanner # "free"
    /\ rcrm # <<>> /\ rcrm[1].success
    /\ rnote = <<Ok("Failed to send email notification")>>
    /\ rout = SuccessText

----------------------------------------------------------------------------
(* Claims about the event log under failures and concurrency *)

\* The delivery's run returned the answer of a failed CRM insertion and the
\* delivery has been answered.
CrmFailedRunAnswered(h) ==
    /\ req[h].pc = "ok"
    /\ req[h].orch = "ran"
    /\ req[h].posted = FailureText

\* C26: a run whose CRM capability returned success=false reaches its terminal
\* response, and its EventLog does not end with status 'success'.
C26_CrmFailureLoggedAsFailure ==
    \A h \in DOMAIN req :
        CrmFailedRunAnswered(h) => db[req[h].log_id].status # "success"

\* C27: an EventLog the timeout sweep has marked 'error' stays 'error', whatever
\* update_event_status call follows.
C27_TimedOutStaysError ==
    [][\A id \in DOMAIN db :
          (db[id].status = "error" /\ db[id].error_message = TimeoutText) =>
              db'[id].status = "error"]_vars

\* C28: a persisted status 'success' is never replaced by 'error'.
C28_SuccessNeverBecomesError ==
    [][\A id \in DOMAIN db :
          db[id].status = "success" => db'[id].status # "error"]_vars

\* No logger operation is in progress: no delivery is inside log_event or
\* update_event_status and no sweep is between its select and its commit.
Quiescent ==
    /\ \A h \in DOMAIN req :
          req[h].pc \notin {"log_commit", "log_append", "upd_select", "upd_commit", "upd_refresh"}
    /\ monitor.selected = {}

\* C29: in every quiescent state each entry of the live buffer has the status
\* and error_message of its persisted EventLog.
C29_LiveBufferAgreesWithLog ==
    Quiescent =>
        \A i \in DOMAIN live_events :
            /\ live_events[i].status = db[live_events[i].id].status
            /\ live_events[i].error_message = db[live_events[i].id].error_message

\* C30: subscribers connecting, disconnecting or failing during a notification
\* never make log_event or update_event_status fail: a delivery that entered
\* process_message is not answered 500, and once answered its EventLog is
\* 'success' and its reply the run's answer, as with no subscribers.
C30_SubscriberChurnHarmless ==
    \A h \in DOMAIN req :
        req[h].entered =>
            /\ req[h].pc # "http_500"
            /\ req[h].pc = "ok" =>
                  /\ req[h].posted \in {SuccessText, FailureText}
                  /\ db[req[h].log_id].status = "success"

============================================================================
